---------------------------- MODULE Spec2Model ----------------------------
(***************************************************************************)
(* Model of the terminal driver of rustty (src/src/core/driver.rs):        *)
(* Driver::new builds the escape-sequence index from the terminfo strings, *)
(* Driver::get_event decodes an input buffer into an Event, Driver::get    *)
(* renders a DevFn into the bytes of its capability.                       *)
(*                                                                         *)
(* Representation.  A byte string (Vec<u8>, &[u8]) is a sequence of        *)
(* numbers 0..255; a String is the sequence of its chars (code points),    *)
(* obtained from bytes by FromUtf8; Option<T> is <<>> (None) or <<v>>      *)
(* (Some(v)); a HashMap is a function on the set of its keys.  A usize is  *)
(* the pair <<hi, lo>> standing for hi * 2^31 + lo with lo < 2^31, so that *)
(* values of 2^31 and more can be written with 32-bit arithmetic.          *)
(***************************************************************************)
EXTENDS Integers, Sequences, FiniteSets, TLC

(***************************************************************************)
(* Bounds of the explored inputs.                                          *)
(***************************************************************************)
\* number of capability strings of the base database that an environment
\* may change (remove, add or replace)
MaxPerturb == 1
\* largest high part <<hi, _>> of a SetCursor coordinate that is tried
MaxHi == 2

(***************************************************************************)
(* Events (core::input::Event as used by KEYS and get_event).              *)
(***************************************************************************)
Function(n) == [tag |-> "Function", arg |-> n]
Up       == [tag |-> "Up", arg |-> 0]
Down     == [tag |-> "Down", arg |-> 0]
Left     == [tag |-> "Left", arg |-> 0]
Right    == [tag |-> "Right", arg |-> 0]
PageUp   == [tag |-> "PageUp", arg |-> 0]
PageDown == [tag |-> "PageDown", arg |-> 0]
Home     == [tag |-> "Home", arg |-> 0]
End      == [tag |-> "End", arg |-> 0]
Char(c)  == [tag |-> "Char", arg |-> c]

Key(e, v, c) == [event |-> e, variable |-> v, cap_name |-> c]

KEYS ==
  << Key(Function(1), "key_f1", "kf1"),
     Key(Function(2), "key_f2", "kf2"),
     Key(Function(3), "key_f3", "kf3"),
     Key(Function(4), "key_f4", "kf4"),
     Key(Function(5), "key_f5", "kf5"),
     Key(Function(6), "key_f6", "kf6"),
     Key(Function(7), "key_f7", "kf7"),
     Key(Function(8), "key_f8", "kf8"),
     Key(Function(9), "key_f9", "kf9"),
     Key(Function(10), "key_f10", "kf10"),
     Key(Function(11), "key_f11", "kf11"),
     Key(Function(12), "key_f12", "kf12"),
     Key(Up, "key_up", "kcuu1"),
     Key(Down, "key_down", "kcud1"),
     Key(Left, "key_left", "kcub1"),
     Key(Right, "key_right", "kcuf1"),
     Key(PageUp, "key_ppage", "kpp"),
     Key(PageDown, "key_npage", "knp"),
     Key(Home, "key_home", "khome"),
     Key(End, "key_end", "kend") >>

ESCAPE == 27

ENTER_CA    == "smcup"
EXIT_CA     == "rmcup"
ENTER_XMIT  == "smkx"
EXIT_XMIT   == "rmkx"
SHOW_CURSOR == "cnorm"
HIDE_CURSOR == "civis"
SET_CURSOR  == "cup"
CLEAR       == "clear"
RESET       == "sgr0"
UNDERLINE   == "smul"
BOLD        == "bold"
BLINK       == "blink"
REVERSE     == "rev"
SETFG       == "setaf"
SETBG       == "setab"

(***************************************************************************)
(* DevFn values: [tag, x, y, attr]; the fields a variant does not carry    *)
(* are zero.                                                               *)
(***************************************************************************)
Zero == <<0, 0>>
Plain(t)        == [tag |-> t, x |-> Zero, y |-> Zero, attr |-> 0]
SetCursor(x, y) == [tag |-> "SetCursor", x |-> x, y |-> y, attr |-> 0]
SetFg(a)        == [tag |-> "SetFg", x |-> Zero, y |-> Zero, attr |-> a]
SetBg(a)        == [tag |-> "SetBg", x |-> Zero, y |-> Zero, attr |-> a]

PlainTags == {"EnterCa", "ExitCa", "EnterXmit", "ExitXmit", "ShowCursor",
              "HideCursor", "Clear", "Reset", "Underline", "Bold", "Blink",
              "Reverse"}

as_str(dfn) ==
  CASE dfn.tag = "EnterCa"    -> ENTER_CA
    [] dfn.tag = "ExitCa"     -> EXIT_CA
    [] dfn.tag = "EnterXmit"  -> ENTER_XMIT
    [] dfn.tag = "ExitXmit"   -> EXIT_XMIT
    [] dfn.tag = "ShowCursor" -> SHOW_CURSOR
    [] dfn.tag = "HideCursor" -> HIDE_CURSOR
    [] dfn.tag = "SetCursor"  -> SET_CURSOR
    [] dfn.tag = "Clear"      -> CLEAR
    [] dfn.tag = "Reset"      -> RESET
    [] dfn.tag = "Underline"  -> UNDERLINE
    [] dfn.tag = "Bold"       -> BOLD
    [] dfn.tag = "Blink"      -> BLINK
    [] dfn.tag = "Reverse"    -> REVERSE
    [] dfn.tag = "SetFg"      -> SETFG
    [] dfn.tag = "SetBg"      -> SETBG

(***************************************************************************)
(* Options, maps, results.                                                 *)
(***************************************************************************)
None    == <<>>
Some(v) == <<v>>

EmptyMap == [k \in {} |-> <<>>]
\* HashMap::get
MapGet(m, k) == IF k \in DOMAIN m THEN Some(m[k]) ELSE None
\* HashMap::insert: a present key is overwritten
MapInsert(m, k, v) == [x \in (DOMAIN m) \cup {k} |-> IF x = k THEN v ELSE m[x]]
MapRemove(m, k) == [x \in (DOMAIN m) \ {k} |-> m[x]]

(***************************************************************************)
(* str::from_utf8: the chars of a byte string, or an error when the bytes  *)
(* are not well-formed UTF-8 (overlong forms, surrogates, values above     *)
(* U+10FFFF and truncated sequences are rejected).                         *)
(***************************************************************************)
IsCont(b, i, lo, hi) == i <= Len(b) /\ b[i] >= lo /\ b[i] <= hi

\* the char starting at byte i: [w |-> number of bytes (0: ill-formed), c |-> code point]
Utf8Char(b, i) ==
  LET b0 == b[i] IN
  IF b0 < 128 THEN [w |-> 1, c |-> b0]
  ELSE IF b0 >= 194 /\ b0 <= 223 THEN
    IF IsCont(b, i + 1, 128, 191)
    THEN [w |-> 2, c |-> (b0 - 192) * 64 + (b[i + 1] - 128)]
    ELSE [w |-> 0, c |-> 0]
  ELSE IF b0 >= 224 /\ b0 <= 239 THEN
    IF /\ IsCont(b, i + 1, IF b0 = 224 THEN 160 ELSE 128, IF b0 = 237 THEN 159 ELSE 191)
       /\ IsCont(b, i + 2, 128, 191)
    THEN [w |-> 3, c |-> (b0 - 224) * 4096 + (b[i + 1] - 128) * 64 + (b[i + 2] - 128)]
    ELSE [w |-> 0, c |-> 0]
  ELSE IF b0 >= 240 /\ b0 <= 244 THEN
    IF /\ IsCont(b, i + 1, IF b0 = 240 THEN 144 ELSE 128, IF b0 = 244 THEN 143 ELSE 191)
       /\ IsCont(b, i + 2, 128, 191)
       /\ IsCont(b, i + 3, 128, 191)
    THEN [w |-> 4, c |-> (b0 - 240) * 262144 + (b[i + 1] - 128) * 4096
                          + (b[i + 2] - 128) * 64 + (b[i + 3] - 128)]
    ELSE [w |-> 0, c |-> 0]
  ELSE [w |-> 0, c |-> 0]

RECURSIVE Utf8From(_, _, _)
Utf8From(b, i, acc) ==
  IF i > Len(b) THEN [ok |-> TRUE, str |-> acc]
  ELSE LET ch == Utf8Char(b, i) IN
       IF ch.w = 0 THEN [ok |-> FALSE, str |-> <<>>]
       ELSE Utf8From(b, i + ch.w, Append(acc, ch.c))

FromUtf8(b) == Utf8From(b, 1, <<>>)

(***************************************************************************)
(* The capability databases TermInfo::from_env() can resolve.              *)
(***************************************************************************)
XTERM_KEYS ==
  << <<27, 79, 80>>,
     <<27, 79, 81>>,
     <<27, 79, 82>>,
     <<27, 79, 83>>,
     <<27, 91, 49, 53, 126>>,
     <<27, 91, 49, 55, 126>>,
     <<27, 91, 49, 56, 126>>,
     <<27, 91, 49, 57, 126>>,
     <<27, 91, 50, 48, 126>>,
     <<27, 91, 50, 49, 126>>,
     <<27, 91, 50, 51, 126>>,
     <<27, 91, 50, 52, 126>>,
     <<27, 91, 50, 126>>,
     <<27, 91, 51, 126>>,
     <<27, 79, 72>>,
     <<27, 79, 70>>,
     <<27, 91, 53, 126>>,
     <<27, 91, 54, 126>>,
     <<27, 79, 65>>,
     <<27, 79, 66>>,
     <<27, 79, 68>>,
     <<27, 79, 67>> >>

XTERM_FUNCS ==
  << <<27, 91, 63, 49, 48, 52, 57, 104>>,
     <<27, 91, 63, 49, 48, 52, 57, 108>>,
     <<27, 91, 63, 49, 50, 108, 27, 91, 63, 50, 53, 104>>,
     <<27, 91, 63, 50, 53, 108>>,
     <<27, 91, 72, 27, 91, 50, 74>>,
     <<27, 40, 66, 27, 91, 109>>,
     <<27, 91, 52, 109>>,
     <<27, 91, 49, 109>>,
     <<27, 91, 53, 109>>,
     <<27, 91, 55, 109>>,
     <<27, 91, 63, 49, 104, 27, 61>>,
     <<27, 91, 63, 49, 108, 27, 62>>,
     <<27, 91, 63, 49, 48, 48, 48, 104>>,
     <<27, 91, 63, 49, 48, 48, 48, 108>> >>

\* "\E[%i%p1%d;%p2%dH", "\E[3%p1%dm", "\E[4%p1%dm"
CupTemplate   == <<27, 91, 37, 105, 37, 112, 49, 37, 100, 59, 37, 112, 50, 37, 100, 72>>
SetafTemplate == <<27, 91, 51, 37, 112, 49, 37, 100, 109>>
SetabTemplate == <<27, 91, 52, 37, 112, 49, 37, 100, 109>>

\* position in XTERM_KEYS of the sequence of each KEYS entry
XtermKeyIndex ==
  <<1, 2, 3, 4, 5, 6, 7, 8, 9, 10, 11, 12, 19, 20, 21, 22, 17, 18, 15, 16>>

\* The key strings of the base database: the function keys are stored under
\* their cap names, the navigation keys under their variable names.
XtermKeyName(i) == IF i <= 12 THEN KEYS[i].cap_name ELSE KEYS[i].variable

XtermKeyStrings ==
  [n \in {XtermKeyName(i) : i \in 1..Len(KEYS)} |->
     XTERM_KEYS[XtermKeyIndex[CHOOSE i \in 1..Len(KEYS) : XtermKeyName(i) = n]]]

XtermFuncNames ==
  <<ENTER_CA, EXIT_CA, SHOW_CURSOR, HIDE_CURSOR, CLEAR, RESET, UNDERLINE,
    BOLD, BLINK, REVERSE, ENTER_XMIT, EXIT_XMIT>>

XtermFuncStrings ==
  [n \in {XtermFuncNames[i] : i \in 1..Len(XtermFuncNames)} \cup {SET_CURSOR, SETFG, SETBG} |->
     IF n = SET_CURSOR THEN CupTemplate
     ELSE IF n = SETFG THEN SetafTemplate
     ELSE IF n = SETBG THEN SetabTemplate
     ELSE XTERM_FUNCS[CHOOSE i \in 1..Len(XtermFuncNames) : XtermFuncNames[i] = n]]

Merge(f, g) == [n \in (DOMAIN f) \cup (DOMAIN g) |-> IF n \in DOMAIN g THEN g[n] ELSE f[n]]


(***************************************************************************)
(* `as i32` (driver.rs:176, 181): the value modulo 2^32 read as two's      *)
(* complement.  For a usize <<hi, lo>> = hi * 2^31 + lo the low 32 bits    *)
(* are (hi % 2) * 2^31 + lo, which is negative exactly when hi is odd.     *)
(***************************************************************************)
MaxI32 == 2147483647
MinI32 == (-MaxI32) - 1

\* a cast that saturates at i32::MAX instead of truncating
UsizeAsI32Saturating(n) == IF n[1] > 0 THEN MaxI32 ELSE n[2]

UsizeAsI32(n) == IF n[1] % 2 = 1 THEN (n[2] - MaxI32) - 1 ELSE n[2]
\* a u8 is below 2^31: the conversion keeps the value
U8AsI32(a) == a

(***************************************************************************)
(* term::terminfo::parm::expand, as called at driver.rs:178 and :183, for  *)
(* the options the templates of the databases below use: literal bytes,    *)
(* %%, %i, %p1..%p9, %d, %P<var> and %g<var>.  Parameters are Number(i32). *)
(* The result is [status, out]: "ok" (Ok(out)), "err" (Err(..)) or "panic" *)
(* (an arithmetic overflow with overflow checks, or an index out of range).*)
(***************************************************************************)
Variables_new == [v \in {} |-> 0]

VarGet(vars, v) == IF v \in DOMAIN vars THEN vars[v] ELSE 0

IsVarName(c) == (c >= 65 /\ c <= 90) \/ (c >= 97 /\ c <= 122)

RECURSIVE DecimalNat(_)
DecimalNat(n) ==
  IF n < 10 THEN <<48 + n>> ELSE Append(DecimalNat(n \div 10), 48 + (n % 10))

\* the decimal text of an i32 (the format of %d), without overflowing on MinI32
Decimal(n) ==
  IF n >= 0 THEN DecimalNat(n)
  ELSE LET d == (10 - (n % 10)) % 10
           q == -((n + d) \div 10)
       IN <<45>> \o (IF q = 0 THEN <<>> ELSE DecimalNat(q)) \o <<48 + d>>

\* the nine parameters of a template: the given ones, then Number(0)
PadParams(params) == [k \in 1..9 |-> IF k <= Len(params) THEN params[k] ELSE 0]

Pop(stack) == SubSeq(stack, 1, Len(stack) - 1)
Top(stack) == stack[Len(stack)]

\* one byte c of the template in state st
ExpandByte(st, c, build) ==
  CASE st.state = "Nothing" ->
         IF c = 37 THEN [st EXCEPT !.state = "Percent"]
         ELSE [st EXCEPT !.output = Append(@, c)]
    [] st.state = "Percent" ->
         IF c = 37 THEN [st EXCEPT !.output = Append(@, c), !.state = "Nothing"]
         ELSE IF c = 112 THEN [st EXCEPT !.state = "PushParam"]
         ELSE IF c = 80 THEN [st EXCEPT !.state = "SetVar"]
         ELSE IF c = 103 THEN [st EXCEPT !.state = "GetVar"]
         ELSE IF c = 105 THEN
           IF st.mparams[1] = MaxI32 \/ st.mparams[2] = MaxI32 THEN
             IF build = "debug" THEN [st EXCEPT !.status = "panic"]
             ELSE [st EXCEPT !.state = "Nothing",
                             !.mparams[1] = IF @ = MaxI32 THEN MinI32 ELSE @ + 1,
                             !.mparams[2] = IF @ = MaxI32 THEN MinI32 ELSE @ + 1]
           ELSE [st EXCEPT !.state = "Nothing", !.mparams[1] = @ + 1, !.mparams[2] = @ + 1]
         ELSE IF c = 100 THEN
           IF st.stack # <<>>
           THEN [st EXCEPT !.state = "Nothing", !.stack = Pop(@),
                           !.output = @ \o Decimal(Top(st.stack))]
           ELSE [st EXCEPT !.status = "err"]
         ELSE [st EXCEPT !.status = "err"]
    [] st.state = "PushParam" ->
         IF c >= 49 /\ c <= 57
         THEN [st EXCEPT !.state = "Nothing", !.stack = Append(@, st.mparams[c - 48])]
         ELSE IF c = 48 THEN [st EXCEPT !.status = "panic"]
         ELSE [st EXCEPT !.status = "err"]
    [] st.state = "SetVar" ->
         IF IsVarName(c) /\ st.stack # <<>>
         THEN [st EXCEPT !.state = "Nothing", !.stack = Pop(@),
                         !.vars = MapInsert(@, c, Top(st.stack))]
         ELSE [st EXCEPT !.status = "err"]
    [] st.state = "GetVar" ->
         IF IsVarName(c)
         THEN [st EXCEPT !.state = "Nothing", !.stack = Append(@, VarGet(st.vars, c))]
         ELSE [st EXCEPT !.status = "err"]

RECURSIVE ExpandFrom(_, _, _, _)
ExpandFrom(cap, i, st, build) ==
  IF i > Len(cap) \/ st.status # "ok" THEN st
  ELSE ExpandFrom(cap, i + 1, ExpandByte(st, cap[i], build), build)

expand(cap, params, vars, build) ==
  LET st == ExpandFrom(cap, 1,
                       [state |-> "Nothing", status |-> "ok", output |-> <<>>,
                        stack |-> <<>>, mparams |-> PadParams(params), vars |-> vars],
                       build)
  IN [status |-> st.status, out |-> st.output, vars |-> st.vars]


(***************************************************************************)
(* Environments: the base database with at most MaxPerturb of its key      *)
(* strings changed, and the base keys with each table of function          *)
(* templates.                                                              *)
(***************************************************************************)
EmptyStrings == [n \in {} |-> <<>>]

XtermStrings == Merge(XtermKeyStrings, XtermFuncStrings)

\* a terminal without an End key
NoEndStrings == MapRemove(XtermStrings, "key_end")

\* both names of the entry F1 and the primary name of the entry Up
VariedNames == {"key_f1", "kf1", "key_up"}

\* absent; empty; ESC alone; backspace; the sequence of Up; a byte that is
\* not UTF-8; the two bytes of U+00E9
VariedValues ==
  { None, Some(<<>>), Some(<<27>>), Some(<<8>>), Some(<<27, 79, 65>>),
    Some(<<255>>), Some(<<195, 169>>) }

SetString(s, n, v) == IF v = None THEN MapRemove(s, n) ELSE MapInsert(s, n, v[1])

RECURSIVE Perturbed(_)
Perturbed(k) ==
  IF k = 0 THEN {XtermStrings, NoEndStrings}
  ELSE LET prev == Perturbed(k - 1)
       IN prev \cup {SetString(s, n, v) : s \in prev, n \in VariedNames, v \in VariedValues}

\* "\E[%p1%d;%p2%dH" (no %i), "\E[%ga%d;%p1%Pa%ga%dm" (variables), "%%%p2%d"
PlainTemplates ==
  [n \in {SET_CURSOR, SETFG, SETBG} |->
     IF n = SET_CURSOR THEN <<27, 91, 37, 112, 49, 37, 100, 59, 37, 112, 50, 37, 100, 72>>
     ELSE IF n = SETFG
       THEN <<27, 91, 37, 103, 97, 37, 100, 59, 37, 112, 49, 37, 80, 97, 37, 103, 97, 37, 100, 109>>
       ELSE <<37, 37, 37, 112, 50, 37, 100>>]

\* "\E[%dH" (%d on an empty stack), "\E[%zm" (no such option), "\E[%p0%dm"
BrokenTemplates ==
  [n \in {SET_CURSOR, SETFG, SETBG} |->
     IF n = SET_CURSOR THEN <<27, 91, 37, 100, 72>>
     ELSE IF n = SETFG THEN <<27, 91, 37, 122, 109>>
       ELSE <<27, 91, 37, 112, 48, 37, 100, 109>>]

FuncDatabases ==
  { XtermFuncStrings, EmptyStrings, PlainTemplates, BrokenTemplates,
    Merge(XtermFuncStrings, PlainTemplates), Merge(XtermFuncStrings, BrokenTemplates) }

Databases ==
  Perturbed(MaxPerturb) \cup {Merge(XtermKeyStrings, f) : f \in FuncDatabases}

Environments ==
  {[resolves |-> FALSE, strings |-> EmptyStrings]}
    \cup {[resolves |-> TRUE, strings |-> s] : s \in Databases}

\* overflow checks on ("debug") or off ("release")
Builds == {"debug", "release"}

(***************************************************************************)
(* The arguments of the calls.                                             *)
(***************************************************************************)
Buffers ==
  {XTERM_KEYS[XtermKeyIndex[i]] : i \in 1..Len(KEYS)}
    \cup { <<>>, <<27>>, <<8>>, <<97, 98>>, <<233>>, <<27, 79>>,
           <<27, 79, 65, 66>>, <<27, 120>> }

Coords == {<<hi, lo>> : hi \in 0..MaxHi, lo \in {5, MaxI32}}

DevFns ==
  {Plain(t) : t \in PlainTags}
    \cup {SetCursor(x, <<0, 2>>) : x \in Coords}
    \cup {SetCursor(<<0, 5>>, y) : y \in Coords}
    \cup {SetFg(a) : a \in {0, 255}}
    \cup {SetBg(a) : a \in {0, 255}}

(***************************************************************************)
(* State.                                                                  *)
(***************************************************************************)
VARIABLES
  env,      \* what TermInfo::from_env() finds: [resolves, strings]
  build,    \* whether arithmetic overflow is checked
  state,    \* "start", "ready" (Driver::new returned Ok), "failed" (Err), "panicked"
  driver,   \* None, or Some([tinfo, escape_seq_map]) after Driver::new returned Ok
  err,      \* None, or Some(the Error Driver::new returned)
  call,     \* the last call on the driver: [op, buf, dfn]
  ret,      \* the Option the last call returned
  params    \* the parameters the last call handed to parm::expand

vars == <<env, build, state, driver, err, call, ret, params>>

NoCall == [op |-> "none", buf |-> <<>>, dfn |-> Plain("Clear")]

Init ==
  /\ env \in Environments
  /\ build \in Builds
  /\ state = "start"
  /\ driver = None
  /\ err = None
  /\ call = NoCall
  /\ ret = None
  /\ params = <<>>

(***************************************************************************)
(* Driver::new and populate_escape_seq_map.                                *)
(***************************************************************************)
Error(kind, key) == [kind |-> kind, variable |-> key.variable, cap_name |-> key.cap_name]

\* the cap name tried before the variable name
LookupKeyFallbackFirst(strings, key) ==
  IF MapGet(strings, key.cap_name) # None
  THEN MapGet(strings, key.cap_name)
  ELSE MapGet(strings, key.variable)

\* strings.get(variable).or_else(|| strings.get(cap_name))
LookupKey(strings, key) ==
  IF MapGet(strings, key.variable) # None
  THEN MapGet(strings, key.variable)
  ELSE MapGet(strings, key.cap_name)

\* an entry without a string is skipped instead of failing the construction
RECURSIVE PopulateFromSkip(_, _, _)
PopulateFromSkip(strings, i, map) ==
  IF i > Len(KEYS) THEN [ok |-> TRUE, map |-> map, err |-> None]
  ELSE LET key == KEYS[i]
           escape_seq_utf8 == LookupKey(strings, key)
       IN IF escape_seq_utf8 = None
          THEN PopulateFromSkip(strings, i + 1, map)
          ELSE LET escape_seq_str == FromUtf8(escape_seq_utf8[1])
               IN IF ~escape_seq_str.ok
                  THEN [ok |-> FALSE, map |-> map, err |-> Some(Error("InvalidData", key))]
                  ELSE PopulateFromSkip(strings, i + 1,
                                        MapInsert(map, escape_seq_str.str, key.event))

RECURSIVE PopulateFrom(_, _, _)
PopulateFrom(strings, i, map) ==
  IF i > Len(KEYS) THEN [ok |-> TRUE, map |-> map, err |-> None]
  ELSE LET key == KEYS[i]
           escape_seq_utf8 == LookupKey(strings, key)
       IN IF escape_seq_utf8 = None
          THEN [ok |-> FALSE, map |-> map, err |-> Some(Error("NotFound", key))]
          ELSE LET escape_seq_str == FromUtf8(escape_seq_utf8[1])
               IN IF ~escape_seq_str.ok
                  THEN [ok |-> FALSE, map |-> map, err |-> Some(Error("InvalidData", key))]
                  ELSE PopulateFrom(strings, i + 1,
                                    MapInsert(map, escape_seq_str.str, key.event))

populate_escape_seq_map(strings) == PopulateFrom(strings, 1, EmptyMap)

\* the Result of Driver::new in environment e
DriverNew(e) ==
  IF ~e.resolves
  THEN [driver |-> None,
        err |-> Some([kind |-> "FromEnv", variable |-> "", cap_name |-> ""])]
  ELSE LET r == populate_escape_seq_map(e.strings)
       IN IF r.ok
          THEN [driver |-> Some([tinfo |-> e.strings, escape_seq_map |-> r.map]),
                err |-> None]
          ELSE [driver |-> None, err |-> r.err]

New ==
  /\ state = "start"
  /\ LET r == DriverNew(env)
     IN /\ driver' = r.driver
        /\ err' = r.err
        /\ state' = IF r.err = None THEN "ready" ELSE "failed"
  /\ UNCHANGED <<env, build, call, ret, params>>

(***************************************************************************)
(* Driver::get_event.                                                      *)
(***************************************************************************)
\* the index searched for the characters after ESC instead of the whole buffer
get_event_rest(d, buf) ==
  IF buf = <<>> THEN [panic |-> TRUE, ret |-> None]
  ELSE IF Head(buf) = ESCAPE /\ Tail(buf) # <<>>
       THEN [panic |-> FALSE, ret |-> MapGet(d.escape_seq_map, Tail(buf))]
       ELSE [panic |-> FALSE, ret |-> Some(Char(Head(buf)))]

\* the longest registered prefix of the buffer decides
get_event_prefix(d, buf) ==
  IF buf = <<>> THEN [panic |-> TRUE, ret |-> None]
  ELSE IF Head(buf) = ESCAPE /\ Tail(buf) # <<>>
       THEN LET hits == {n \in 1..Len(buf) : SubSeq(buf, 1, n) \in DOMAIN d.escape_seq_map}
            IN IF hits = {} THEN [panic |-> FALSE, ret |-> None]
               ELSE LET n == CHOOSE m \in hits : \A k \in hits : k <= m
                    IN [panic |-> FALSE, ret |-> Some(d.escape_seq_map[SubSeq(buf, 1, n)])]
       ELSE [panic |-> FALSE, ret |-> Some(Char(Head(buf)))]

\* the index is searched first, for every buffer
get_event_map_first(d, buf) ==
  IF buf = <<>> THEN [panic |-> TRUE, ret |-> None]
  ELSE IF buf \in DOMAIN d.escape_seq_map
       THEN [panic |-> FALSE, ret |-> Some(d.escape_seq_map[buf])]
       ELSE IF Head(buf) = ESCAPE /\ Tail(buf) # <<>>
            THEN [panic |-> FALSE, ret |-> None]
            ELSE [panic |-> FALSE, ret |-> Some(Char(Head(buf)))]

\* [panic, ret] of get_event on the driver d
get_event(d, buf) ==
  IF buf = <<>> THEN [panic |-> TRUE, ret |-> None]
  ELSE LET first == Head(buf)
           rest == Tail(buf)
       IN IF first = ESCAPE
          THEN IF rest = <<>>
               THEN [panic |-> FALSE, ret |-> Some(Char(first))]
               ELSE [panic |-> FALSE, ret |-> MapGet(d.escape_seq_map, buf)]
          ELSE [panic |-> FALSE, ret |-> Some(Char(first))]

\* a decoded sequence is taken out of the index
GetEventConsume(buf) ==
  /\ state = "ready"
  /\ LET r == get_event(driver[1], buf)
     IN /\ state' = IF r.panic THEN "panicked" ELSE "ready"
        /\ ret' = r.ret
  /\ driver' = Some([driver[1] EXCEPT !.escape_seq_map = MapRemove(@, buf)])
  /\ call' = [op |-> "get_event", buf |-> buf, dfn |-> NoCall.dfn]
  /\ params' = <<>>
  /\ UNCHANGED <<env, build, err>>

GetEvent(buf) ==
  /\ state = "ready"
  /\ LET r == get_event(driver[1], buf)
     IN /\ state' = IF r.panic THEN "panicked" ELSE "ready"
        /\ ret' = r.ret
  /\ call' = [op |-> "get_event", buf |-> buf, dfn |-> NoCall.dfn]
  /\ params' = <<>>
  /\ UNCHANGED <<env, build, driver, err>>

(***************************************************************************)
(* Driver::get.                                                            *)
(***************************************************************************)
\* SetCursor passes the column before the row
ParamsOfColumnFirst(dfn) ==
  IF dfn.tag \in {"SetFg", "SetBg"} THEN <<U8AsI32(dfn.attr)>>
  ELSE IF dfn.tag = "SetCursor" THEN <<UsizeAsI32(dfn.x), UsizeAsI32(dfn.y)>>
  ELSE <<>>

\* the parameter list of a DevFn, <<>> for a variant without parameters
ParamsOf(dfn) ==
  IF dfn.tag \in {"SetFg", "SetBg"} THEN <<U8AsI32(dfn.attr)>>
  ELSE IF dfn.tag = "SetCursor" THEN <<UsizeAsI32(dfn.y), UsizeAsI32(dfn.x)>>
  ELSE <<>>

\* an absent capability unwrapped instead of mapped
get_unwrap_cap(d, dfn, b) ==
  LET cap == MapGet(d.tinfo, as_str(dfn))
  IN IF cap = None THEN [panic |-> TRUE, ret |-> None, params |-> <<>>]
     ELSE IF dfn.tag \in {"SetFg", "SetBg", "SetCursor"}
       THEN LET ps == ParamsOf(dfn)
                r == expand(cap[1], ps, Variables_new, b)
            IN IF r.status = "ok"
               THEN [panic |-> FALSE, ret |-> Some(r.out), params |-> ps]
               ELSE [panic |-> TRUE, ret |-> None, params |-> ps]
       ELSE [panic |-> FALSE, ret |-> Some(cap[1]), params |-> <<>>]

\* an absent capability rendered as the empty byte string
get_or_empty(d, dfn, b) ==
  LET cap == MapGet(d.tinfo, as_str(dfn))
  IN IF cap = None THEN [panic |-> FALSE, ret |-> Some(<<>>), params |-> <<>>]
     ELSE IF dfn.tag \in {"SetFg", "SetBg", "SetCursor"}
       THEN LET ps == ParamsOf(dfn)
                r == expand(cap[1], ps, Variables_new, b)
            IN IF r.status = "ok"
               THEN [panic |-> FALSE, ret |-> Some(r.out), params |-> ps]
               ELSE [panic |-> TRUE, ret |-> None, params |-> ps]
       ELSE [panic |-> FALSE, ret |-> Some(cap[1]), params |-> <<>>]

\* [panic, ret, params] of get on the driver d
get(d, dfn, b) ==
  LET capname == as_str(dfn)
      cap == MapGet(d.tinfo, capname)
  IN IF cap = None THEN [panic |-> FALSE, ret |-> None, params |-> <<>>]
     ELSE IF dfn.tag \in {"SetFg", "SetBg", "SetCursor"}
       THEN LET ps == ParamsOf(dfn)
                r == expand(cap[1], ps, Variables_new, b)
            IN IF r.status = "ok"
               THEN [panic |-> FALSE, ret |-> Some(r.out), params |-> ps]
               ELSE [panic |-> TRUE, ret |-> None, params |-> ps]
       ELSE [panic |-> FALSE, ret |-> Some(cap[1]), params |-> <<>>]

Get(dfn) ==
  /\ state = "ready"
  /\ LET r == get(driver[1], dfn, build)
     IN /\ state' = IF r.panic THEN "panicked" ELSE "ready"
        /\ ret' = r.ret
        /\ params' = r.params
  /\ call' = [op |-> "get", buf |-> <<>>, dfn |-> dfn]
  /\ UNCHANGED <<env, build, driver, err>>

Next ==
  \/ New
  \/ \E buf \in Buffers : GetEvent(buf)
  \/ \E dfn \in DevFns : Get(dfn)

Spec == Init /\ [][Next]_vars

(***************************************************************************)
(* What the claims speak of, read off the environment and the KEYS table.  *)
(***************************************************************************)
Entries == 1..Len(KEYS)

\* the terminal provides the primary or the fallback name of entry i
Provided(i) ==
  KEYS[i].variable \in DOMAIN env.strings \/ KEYS[i].cap_name \in DOMAIN env.strings

\* the template of entry i: the primary name's when present, else the fallback's
Chosen(i) ==
  IF KEYS[i].variable \in DOMAIN env.strings THEN env.strings[KEYS[i].variable]
  ELSE env.strings[KEYS[i].cap_name]

ValidEntry(i) == Provided(i) /\ FromUtf8(Chosen(i)).ok

\* the sequence stored for a valid entry i
Stored(i) == FromUtf8(Chosen(i)).str

Constructed == state \in {"ready", "panicked"}

Index == driver[1].escape_seq_map

Parameterized(dfn) == dfn.tag \in {"SetCursor", "SetFg", "SetBg"}

\* the capability name of a variant
CapName(dfn) ==
  CASE dfn.tag = "SetCursor" -> "cup"
    [] dfn.tag = "SetFg" -> "setaf"
    [] dfn.tag = "SetBg" -> "setab"
    [] OTHER -> as_str([dfn EXCEPT !.x = Zero, !.y = Zero, !.attr = 0])

\* a usize below 2^31 is itself; otherwise its low 32 bits as two's complement
Wrapped(n) ==
  IF n[1] = 0 THEN n[2]
  ELSE IF n[1] % 2 = 0 THEN n[2] ELSE (n[2] - MaxI32) - 1

(***************************************************************************)
(* C1                                                                      *)
(***************************************************************************)
\* C1 as stated: for every KEYS entry of which the terminal provides the
\* primary or the fallback name, Driver::new succeeds and get_event on the
\* sequence stored for the entry returns Some(the entry's Event).
C1_AsStated ==
  (env.resolves /\ state # "start") =>
    \A i \in Entries :
      Provided(i) =>
        /\ state # "failed"
        /\ (call.op = "get_event" /\ call.buf = Stored(i)) =>
             (state = "ready" /\ ret = Some(KEYS[i].event))

\* C1 amended: when the capability source resolves and every KEYS entry has
\* a chosen template that is valid UTF-8, Driver::new succeeds; get_event on
\* the stored sequence of an entry returns Some(the entry's Event) whenever
\* that sequence starts with ESCAPE, has a further character and is not
\* also the stored sequence of a later entry.
C1_Amended ==
  /\ (env.resolves /\ state # "start" /\ \A i \in Entries : ValidEntry(i)) =>
       state # "failed"
  /\ (Constructed /\ call.op = "get_event" /\ Len(call.buf) >= 2 /\ call.buf[1] = ESCAPE) =>
       LET storing == {i \in Entries : Stored(i) = call.buf}
       IN \A i \in storing :
            (\A j \in storing : j <= i) => (state = "ready" /\ ret = Some(KEYS[i].event))

\* C1 witness: the stored sequence of an entry, shared with an earlier
\* entry, has been decoded into the later entry's Event.
C1_Witness ==
  /\ state = "ready"
  /\ call.op = "get_event"
  /\ \E i \in Entries :
       /\ call.buf = Stored(i)
       /\ ret = Some(KEYS[i].event)
       /\ \E j \in Entries : j < i /\ Stored(j) = Stored(i)

(***************************************************************************)
(* C2                                                                      *)
(***************************************************************************)
\* C2 as stated: every call of get_event and of get returns Some(..) or
\* None and never panics.
C2_AsStated == state # "panicked"

\* the calls that panic: get_event on the empty buffer, and get of a
\* parameterized variant whose present template fails to expand
PanicCase ==
  \/ call.op = "get_event" /\ call.buf = <<>>
  \/ /\ call.op = "get"
     /\ Parameterized(call.dfn)
     /\ CapName(call.dfn) \in DOMAIN env.strings
     /\ expand(env.strings[CapName(call.dfn)],
               IF call.dfn.tag = "SetCursor"
               THEN <<Wrapped(call.dfn.y), Wrapped(call.dfn.x)>>
               ELSE <<call.dfn.attr>>,
               Variables_new, build).status # "ok"

\* C2 amended: a call on a constructed Driver returns Some(..) or None,
\* except that get_event panics on the empty buffer and get panics when the
\* expansion of the template of a parameterized DevFn fails; no other call
\* panics.
C2_Amended ==
  call.op # "none" =>
    /\ state \in {"ready", "panicked"}
    /\ (state = "panicked") = PanicCase
    /\ state = "ready" => (ret = None \/ Len(ret) = 1)

\* C2 witness: a get whose template failed to expand has panicked.
C2_Witness == state = "panicked" /\ call.op = "get" /\ params # <<>>

(***************************************************************************)
(* C3                                                                      *)
(***************************************************************************)
\* C3: for a buffer that starts with ESCAPE and has a further character,
\* get_event returns the result of looking up the whole buffer in the
\* index: Some(event) when the buffer is a registered sequence, else None.
C3_WholeBufferLookup ==
  (Constructed /\ call.op = "get_event" /\ Len(call.buf) >= 2 /\ call.buf[1] = ESCAPE) =>
    /\ state = "ready"
    /\ ret = (IF call.buf \in DOMAIN Index THEN Some(Index[call.buf]) ELSE None)
    /\ (ret = None) = (call.buf \notin {Stored(i) : i \in Entries})

\* C3 witness: a registered sequence followed by one more character has
\* been decoded into None.
C3_Witness ==
  /\ state = "ready"
  /\ call.op = "get_event"
  /\ Len(call.buf) >= 3
  /\ SubSeq(call.buf, 1, Len(call.buf) - 1) \in DOMAIN Index
  /\ ret = None

(***************************************************************************)
(* C4                                                                      *)
(***************************************************************************)
\* C4: for a non-empty buffer that is ESCAPE alone or does not start with
\* ESCAPE, get_event returns Some(Char(first character)), whatever the
\* index holds and whatever follows the first character.
C4_CharOfFirst ==
  ( /\ Constructed
    /\ call.op = "get_event"
    /\ call.buf # <<>>
    /\ (call.buf = <<ESCAPE>> \/ call.buf[1] # ESCAPE) )
  => (state = "ready" /\ ret = Some(Char(call.buf[1])))

\* C4 witness: a buffer that is itself a registered sequence has been
\* decoded into the Char of its first character.
C4_Witness ==
  /\ state = "ready"
  /\ call.op = "get_event"
  /\ call.buf \in DOMAIN Index
  /\ ret = Some(Char(call.buf[1]))

(***************************************************************************)
(* C5                                                                      *)
(***************************************************************************)
\* the entries that fail: neither name present, or a chosen template that
\* is not valid UTF-8
Failing == {i \in Entries : ~ValidEntry(i)}

FirstFailing == CHOOSE i \in Failing : \A j \in Failing : i <= j

\* C5: Driver::new succeeds exactly when the capability source resolves and
\* every KEYS entry has a chosen template that is valid UTF-8; otherwise no
\* Driver is returned, and the error is that of the first failing entry in
\* table order: NotFound when it has neither name, InvalidData when its
\* chosen template is not valid UTF-8.
C5_Construction ==
  state # "start" =>
    /\ Constructed = (env.resolves /\ Failing = {})
    /\ Constructed => (driver # None /\ err = None)
    /\ ~Constructed =>
         /\ state = "failed"
         /\ driver = None
         /\ err # None
         /\ env.resolves =>
              err = Some([kind |-> IF Provided(FirstFailing) THEN "InvalidData" ELSE "NotFound",
                          variable |-> KEYS[FirstFailing].variable,
                          cap_name |-> KEYS[FirstFailing].cap_name])

\* C5 witness: the construction failed with the InvalidData error of an
\* entry although a later entry has neither name.
C5_Witness ==
  /\ state = "failed"
  /\ env.resolves
  /\ err[1].kind = "InvalidData"
  /\ \E j \in Failing : j > FirstFailing /\ ~Provided(j)

(***************************************************************************)
(* C6                                                                      *)
(***************************************************************************)
\* the pairs <<stored sequence, entry>> of the KEYS table
StoredPairs == {<<Stored(i), i>> : i \in Entries}

\* C6: after a successful construction the index holds exactly the stored
\* sequences of the KEYS entries (the primary name's string when present,
\* the fallback's otherwise), each mapped to the Event of the last entry in
\* table order that stores it; every value is an Event of KEYS and there
\* are at most Len(KEYS) = 20 keys.
C6_Index ==
  Constructed =>
    /\ DOMAIN Index = {p[1] : p \in StoredPairs}
    /\ \A p \in StoredPairs :
         (\A q \in StoredPairs : q[1] = p[1] => q[2] <= p[2]) => Index[p[1]] = KEYS[p[2]].event
    /\ \A s \in DOMAIN Index : \E i \in Entries : Index[s] = KEYS[i].event
    /\ Cardinality(DOMAIN Index) <= Len(KEYS)
    /\ Len(KEYS) = 20

\* C6 witness: a Driver was constructed from a terminal where two entries
\* store the same sequence and an entry has both its names.
C6_Witness ==
  /\ state = "ready"
  /\ \E p, q \in StoredPairs : p[2] < q[2] /\ p[1] = q[1]
  /\ \E i \in Entries :
       /\ KEYS[i].variable \in DOMAIN env.strings
       /\ KEYS[i].cap_name \in DOMAIN env.strings
       /\ env.strings[KEYS[i].variable] # env.strings[KEYS[i].cap_name]

(***************************************************************************)
(* C7                                                                      *)
(***************************************************************************)
\* C7: get returns None exactly when the capability name of the variant is
\* absent from the terminal's strings, and then it does not panic; the
\* name is that of the variant, whatever parameters it carries.
C7_NoneIffAbsent ==
  call.op = "get" =>
    /\ (state = "ready" /\ ret = None) = (CapName(call.dfn) \notin DOMAIN env.strings)
    /\ (CapName(call.dfn) \notin DOMAIN env.strings) => state # "panicked"

\* C7 witness: get of a SetCursor with a non-zero coordinate has returned
\* None on a terminal without "cup".
C7_Witness ==
  /\ state = "ready"
  /\ call.op = "get"
  /\ call.dfn.tag = "SetCursor"
  /\ call.dfn.x # Zero
  /\ ret = None

(***************************************************************************)
(* C8                                                                      *)
(***************************************************************************)
\* "\E[3;6H"
Row3Col6 == <<27, 91, 51, 59, 54, 72>>

\* C8: when the capability is present, get returns the stored template
\* unchanged for a variant without parameters, the expansion of "cup" with
\* the parameters [y, x] for SetCursor(x, y), and the expansion with [attr]
\* for SetFg(attr) and SetBg(attr); with the row;column template of xterm,
\* SetCursor(5, 2) is "\E[3;6H".
C8_Rendering ==
  (call.op = "get" /\ state = "ready" /\ CapName(call.dfn) \in DOMAIN env.strings) =>
    LET cap == env.strings[CapName(call.dfn)]
        dfn == call.dfn
    IN /\ ~Parameterized(dfn) => ret = Some(cap)
       /\ dfn.tag = "SetCursor" =>
            ret = Some(expand(cap, <<Wrapped(dfn.y), Wrapped(dfn.x)>>, Variables_new, build).out)
       /\ dfn.tag \in {"SetFg", "SetBg"} =>
            ret = Some(expand(cap, <<dfn.attr>>, Variables_new, build).out)
       /\ (dfn = SetCursor(<<0, 5>>, <<0, 2>>) /\ cap = CupTemplate) => ret = Some(Row3Col6)

\* C8 witness: SetCursor(5, 2) has been rendered with the row;column
\* template of xterm.
C8_Witness ==
  /\ state = "ready"
  /\ call.op = "get"
  /\ call.dfn = SetCursor(<<0, 5>>, <<0, 2>>)
  /\ SET_CURSOR \in DOMAIN env.strings
  /\ env.strings[SET_CURSOR] = CupTemplate
  /\ ret = Some(Row3Col6)

(***************************************************************************)
(* C9                                                                      *)
(***************************************************************************)
\* C9: once Driver::new has returned a Driver, no call of get_event or get
\* changes it: the index and the capability strings stay what they were,
\* those strings are the terminal's, and a call that returns gives the
\* result determined by that unchanged Driver and its argument alone.
C9_Frame ==
  [][state = "ready" =>
       /\ driver' = driver
       /\ driver[1].tinfo = env.strings
       /\ env' = env
       /\ (state' = "ready" /\ call'.op = "get_event") =>
            ret' = get_event(driver[1], call'.buf).ret
       /\ (state' = "ready" /\ call'.op = "get") =>
            ret' = get(driver[1], call'.dfn, build).ret]_vars

\* C9 witness: a call has returned an Event from a constructed Driver.
C9_Witness ==
  /\ state = "ready"
  /\ call.op = "get_event"
  /\ call.buf \in DOMAIN Index
  /\ ret = Some(Index[call.buf])

(***************************************************************************)
(* C10                                                                     *)
(***************************************************************************)
\* C10: the parameters get hands to the expansion are the arguments
\* truncated to i32: the colour index itself for SetFg and SetBg, the
\* coordinate itself when it is below 2^31, and its low 32 bits read as
\* two's complement (never a rejection) when it is 2^31 or more.
C10_Truncation ==
  (call.op = "get" /\ Parameterized(call.dfn) /\ CapName(call.dfn) \in DOMAIN env.strings) =>
    LET dfn == call.dfn
    IN /\ dfn.tag \in {"SetFg", "SetBg"} => params = <<dfn.attr>>
       /\ dfn.tag = "SetCursor" =>
            /\ params = <<Wrapped(dfn.y), Wrapped(dfn.x)>>
            /\ dfn.x[1] = 0 => params[2] = dfn.x[2]
            /\ dfn.y[1] = 0 => params[1] = dfn.y[2]
            /\ \A k \in 1..2 : params[k] >= MinI32 /\ params[k] <= MaxI32

\* C10 witness: a column of 2^31 + 5 has been handed over as the negative
\* number 5 - 2^31.
C10_Witness ==
  /\ call.op = "get"
  /\ call.dfn.tag = "SetCursor"
  /\ call.dfn.x = <<1, 5>>
  /\ params = <<2, (5 - MaxI32) - 1>>
  /\ state = "ready"

=============================================================================
